---- MODULE Spec2Model ----
(***************************************************************************)
(* The server acquisition and lifecycle logic of the Luat VSCode           *)
(* extension (editors/vscode/src/extension.ts): locating the language      *)
(* server binary, resolving the platform target, selecting the release     *)
(* asset, downloading and installing it, and starting, restarting and      *)
(* stopping the language client.                                           *)
(*                                                                         *)
(* Strings whose characters the code inspects (asset names, tags, target   *)
(* triples) are sequences of one-character strings.  File system paths are *)
(* sequences of such components.  An optional value is a sequence of       *)
(* length at most one: Undefined, or Some(v).                              *)
(***************************************************************************)
EXTENDS Naturals, Sequences, FiniteSets

VARIABLES
    platform,        \* process.platform
    arch,            \* process.arch
    configPath,      \* workspace configuration "luat"."server.path" (optional)
    envPATH,         \* process.env.PATH, as its list of entries (optional)
    envCARGO_HOME,   \* process.env.CARGO_HOME (optional)
    fs,              \* the paths that exist on the file system
    client,          \* the module-level `client` (optional: id and server command)
    clientAssigns,   \* how many times `client` has been assigned
    session,         \* state of the client session held by `client`
    registered,      \* per command, how many handlers have been registered
    apc,             \* position of the activate() call
    passes,          \* number of activate() passes entered (recursion included)
    serverPath,      \* activate's local serverPath (optional)
    choice,          \* activate's local choice: the answer to the warning prompt
    job,             \* per caller, the downloadServer() invocation
    rpc,             \* position of the luat.restartServer handler
    pendingUnlinks,  \* fs.unlink calls issued whose completion is outstanding
    netRequested,    \* whether an https.get request has been issued
    actMsgs,         \* error messages shown by activate itself
    cmdNotFound,     \* commands the host could not run: no handler registered
    deactivateCalls, \* number of deactivate() calls made by the host
    uncaught,        \* functions that ended with an exception nobody caught
    inp,             \* input of the function under test (function specifications)
    out              \* its result

envVars == <<platform, arch, configPath, envPATH, envCARGO_HOME>>
sessVars == <<client, clientAssigns, session, registered, rpc>>
actVars == <<apc, passes, serverPath, choice, actMsgs>>
dlVars == <<job, pendingUnlinks, netRequested>>
hostVars == <<cmdNotFound, deactivateCalls, uncaught>>
fnVars == <<inp, out>>
vars == <<envVars, fs, sessVars, actVars, dlVars, hostVars, fnVars>>

----------------------------------------------------------------------------
(* Optional values *)

Undefined == <<>>
Some(v) == <<v>>
IsSome(o) == o # Undefined
Val(o) == o[1]

(* Bounds *)

\* longest PATH (in entries) the locator is checked on
MaxPathDirs == 2
\* longest release asset list the asset selection is checked on
MaxAssets == 2
\* HTTP redirects a download may be answered with before the host stops redirecting
MaxRedirects == 1
\* activate() passes (the first call and its recursive re-entries)
MaxPasses == 2
\* deactivate() calls the host makes
MaxDeactivate == 2

----------------------------------------------------------------------------
(* Strings *)

StrBinaryStem == <<"l","u","a","t","-","l","s","p">>
StrDash == <<"-">>
ExtTarGz == <<".","t","a","r",".","g","z">>
ExtZip == <<".","z","i","p">>
ExtSha == <<".","s","h","a","2","5","6">>
TripleLinuxX64 == <<"x","8","6","_","6","4","-","u","n","k","n","o","w","n","-","l","i","n","u","x","-","g","n","u">>
TripleLinuxArm64 == <<"a","a","r","c","h","6","4","-","u","n","k","n","o","w","n","-","l","i","n","u","x","-","g","n","u">>
TripleDarwinX64 == <<"x","8","6","_","6","4","-","a","p","p","l","e","-","d","a","r","w","i","n">>
TripleDarwinArm64 == <<"a","a","r","c","h","6","4","-","a","p","p","l","e","-","d","a","r","w","i","n">>
TripleWin32X64 == <<"x","8","6","_","6","4","-","p","c","-","w","i","n","d","o","w","s","-","m","s","v","c">>
TagV1 == <<"v","1">>
TagV10 == <<"v","1","0">>
StrVsix == <<"l","u","a","t","-","0",".","2",".","0",".","v","s","i","x">>
StrExe == <<".","e","x","e">>
StrGlobalStorage == <<"g","l","o","b","a","l","S","t","o","r","a","g","e">>
StrServer == <<"s","e","r","v","e","r">>
StrHome == <<"h","o","m","e">>
StrDotCargo == <<".","c","a","r","g","o">>
StrBin == <<"b","i","n">>
StrUsr == <<"u","s","r">>
StrOpt == <<"o","p","t">>
StrCargo == <<"c","a","r","g","o">>
StrCustom == <<"c","u","s","t","o","m">>

\* String.prototype.startsWith
StartsWith(s, p) == Len(p) <= Len(s) /\ SubSeq(s, 1, Len(p)) = p
\* String.prototype.endsWith
EndsWith(s, x) == Len(x) <= Len(s) /\ SubSeq(s, Len(s) - Len(x) + 1, Len(s)) = x

----------------------------------------------------------------------------
(* Platform *)

\* values of process.platform
Platforms == {"aix", "android", "darwin", "freebsd", "haiku", "linux",
              "openbsd", "sunos", "win32", "cygwin", "netbsd"}
\* values of process.arch
Archs == {"arm", "arm64", "ia32", "loong64", "mips", "mipsel", "ppc",
          "ppc64", "riscv64", "s390", "s390x", "x64"}

\* the README's table of supported platforms, by process.platform and process.arch
SupportedPlatforms ==
    { [platform |-> "linux",  arch |-> "x64",   triple |-> TripleLinuxX64,    ext |-> ExtTarGz],
      [platform |-> "linux",  arch |-> "arm64", triple |-> TripleLinuxArm64,  ext |-> ExtTarGz],
      [platform |-> "darwin", arch |-> "x64",   triple |-> TripleDarwinX64,   ext |-> ExtTarGz],
      [platform |-> "darwin", arch |-> "arm64", triple |-> TripleDarwinArm64, ext |-> ExtTarGz],
      [platform |-> "win32",  arch |-> "x64",   triple |-> TripleWin32X64,    ext |-> ExtZip] }

BINARY_NAME == IF platform = "win32" THEN StrBinaryStem \o StrExe ELSE StrBinaryStem

getPlatformTargetFallback ==
    IF platform = "linux" /\ arch = "x64" THEN Some(TripleLinuxX64)
    ELSE IF platform = "linux" /\ arch = "arm64" THEN Some(TripleLinuxArm64)
    ELSE IF platform = "darwin" /\ arch = "x64" THEN Some(TripleDarwinX64)
    ELSE IF platform = "darwin" /\ arch = "arm64" THEN Some(TripleDarwinArm64)
    ELSE IF platform = "win32" THEN Some(TripleWin32X64)
    ELSE Undefined

getPlatformTarget ==
    IF platform = "linux" /\ arch = "x64" THEN Some(TripleLinuxX64)
    ELSE IF platform = "linux" /\ arch = "arm64" THEN Some(TripleLinuxArm64)
    ELSE IF platform = "darwin" /\ arch = "x64" THEN Some(TripleDarwinX64)
    ELSE IF platform = "darwin" /\ arch = "arm64" THEN Some(TripleDarwinArm64)
    ELSE IF platform = "win32" /\ arch = "x64" THEN Some(TripleWin32X64)
    ELSE Undefined

----------------------------------------------------------------------------
(* Paths and the server locator *)

\* path.join(dir, name); the empty directory "" is the empty path
PathJoin(dir, name) == Append(dir, name)

GlobalStorage == <<StrGlobalStorage>>
HomeDir == <<StrHome>>
ServerDir == PathJoin(GlobalStorage, StrServer)
ExtensionServerPath == PathJoin(ServerDir, BINARY_NAME)

\* directories that occur as PATH entries; the empty entry reads as the
\* current directory
CwdDir == <<>>
UsrBin == <<StrUsr, StrBin>>
OptBin == <<StrOpt, StrBin>>
PathEntryDirs == {CwdDir, UsrBin, OptBin}
ConfigFile == <<StrCustom, StrBinaryStem>>
CargoHomeDirs == {<<StrOpt, StrCargo>>}

\* a JavaScript string used as a condition: neither undefined nor ""
Truthy(o) == IsSome(o) /\ Val(o) # <<>>

\* (process.env.PATH || "").split(path.delimiter)
pathDirs == IF IsSome(envPATH) THEN Val(envPATH) ELSE <<CwdDir>>

\* process.env.CARGO_HOME || path.join(os.homedir(), ".cargo")
cargoHome == IF Truthy(envCARGO_HOME) THEN Val(envCARGO_HOME) ELSE PathJoin(HomeDir, StrDotCargo)
cargoPath == PathJoin(PathJoin(cargoHome, StrBin), BINARY_NAME)

existsSync(p) == p \in fs

\* the for loop over pathDirs, from entry i on
RECURSIVE PathLoop(_)
PathLoop(i) ==
    IF i > Len(pathDirs) THEN Undefined
    ELSE IF existsSync(PathJoin(pathDirs[i], BINARY_NAME))
         THEN Some(PathJoin(pathDirs[i], BINARY_NAME))
         ELSE PathLoop(i + 1)

getServerPathPathFirst ==
    IF Truthy(configPath) /\ existsSync(Val(configPath)) THEN configPath
    ELSE IF IsSome(PathLoop(1)) THEN PathLoop(1)
    ELSE IF existsSync(ExtensionServerPath) THEN Some(ExtensionServerPath)
    ELSE IF existsSync(cargoPath) THEN Some(cargoPath)
    ELSE Undefined

getServerPath ==
    IF Truthy(configPath) /\ existsSync(Val(configPath)) THEN configPath
    ELSE IF existsSync(ExtensionServerPath) THEN Some(ExtensionServerPath)
    ELSE IF IsSome(PathLoop(1)) THEN PathLoop(1)
    ELSE IF existsSync(cargoPath) THEN Some(cargoPath)
    ELSE Undefined

----------------------------------------------------------------------------
(* Release asset selection *)

\* `luat-lsp-${release.tag_name}-${target}`
AssetPrefix(tag, target) == StrBinaryStem \o StrDash \o tag \o StrDash \o target

\* the predicate handed to release.assets.find
AssetMatches(name, tag, target) ==
    /\ StartsWith(name, AssetPrefix(tag, target))
    /\ (EndsWith(name, ExtTarGz) \/ EndsWith(name, ExtZip))

\* Array.prototype.find from index i on: the first element that matches
RECURSIVE FindFrom(_, _, _, _)
FindFrom(assets, tag, target, i) ==
    IF i > Len(assets) THEN Undefined
    ELSE IF AssetMatches(assets[i], tag, target) THEN Some(assets[i])
    ELSE FindFrom(assets, tag, target, i + 1)

FindAssetPreferTarGz(assets, tag, target) ==
    LET tgz == { i \in 1..Len(assets) : AssetMatches(assets[i], tag, target)
                                        /\ EndsWith(assets[i], ExtTarGz) }
    IN IF tgz # {}
       THEN Some(assets[CHOOSE i \in tgz : \A k \in tgz : i <= k])
       ELSE FindFrom(assets, tag, target, 1)

FindAsset(assets, tag, target) == FindFrom(assets, tag, target, 1)

----------------------------------------------------------------------------
(* The client session *)

SessionStates == {"Uninitialized", "Starting", "Running", "Restarting", "Stopped"}

\* start: Uninitialized --start--> Starting
StartSession(s) == "Starting"
\* handshake ok: Starting --> Running
HandshakeOk(s) == IF s = "Starting" THEN "Running" ELSE s
\* restart: Running --restart--> Restarting
RestartSession(s) == IF s = "Running" THEN "Restarting" ELSE s
\* Restarting --> Running
RestartDone(s) == IF s = "Restarting" THEN "Running" ELSE s
\* stop: a running, starting or restarting session ends Stopped; stop on a
\* session that is Stopped or was never started is a no-op
StopSession(s) == IF s \in {"Running", "Starting", "Restarting"} THEN "Stopped" ELSE s

Commands == {"luat.restartServer", "luat.downloadServer"}

----------------------------------------------------------------------------
(* downloadServer invocations *)

\* the callers of downloadServer: activate, and invocations of the
\* luat.downloadServer command that may overlap
CmdJobs == {"cmd1", "cmd2"}
Jobs == {"act"} \cup CmdJobs

\* an error message shown with window.showErrorMessage
Msg(kind, tag, target, cause) ==
    [kind |-> kind, tag |-> tag, target |-> target, cause |-> cause]

IdleJob ==
    [pc |-> "idle", target |-> Undefined, tag |-> Undefined, asset |-> Undefined,
     redirects |-> 0, result |-> FALSE, msgs |-> <<>>, prompted |-> FALSE,
     info |-> FALSE]

\* path.join(serverDir, asset.name)
ArchivePath(j) == PathJoin(ServerDir, Val(job[j].asset))

\* the job's invocation ends returning `result`, having shown `msgs` more messages
Ended(j, result, msgs) ==
    [job EXCEPT ![j].pc = "done", ![j].result = result, ![j].redirects = 0,
                ![j].msgs = job[j].msgs \o msgs]

CaughtSilently(j, cause) == Ended(j, FALSE, <<>>)

\* the catch clause: one "Download failed: ${error}" message, return false
Caught(j, cause) ==
    Ended(j, FALSE, <<Msg("DownloadFailed", job[j].tag, job[j].target, cause)>>)

\* asset names a release may list
LinuxTarGz == AssetPrefix(TagV1, TripleLinuxX64) \o ExtTarGz
WinZip == AssetPrefix(TagV1, TripleWin32X64) \o ExtZip

\* what the request for the latest release is answered with: a release
\* descriptor, JSON null, a JSON object that is no release (no assets array),
\* or a rejection (a body that does not parse, a network error)
HostReleases ==
    { [tag |-> TagV1, assets |-> <<LinuxTarGz, WinZip>>],
      [tag |-> TagV1, assets |-> <<StrVsix>>] }
FetchResponses ==
    { [kind |-> "release", tag |-> r.tag, assets |-> r.assets] : r \in HostReleases }
    \cup { [kind |-> k, tag |-> <<>>, assets |-> <<>>] :
             k \in {"null", "noAssets", "rejected"} }

\* lines 187-193 and the start of getLatestRelease
JobResolve(j) ==
    /\ job[j].pc = "resolve"
    /\ IF IsSome(getPlatformTarget)
       THEN /\ job' = [job EXCEPT ![j].pc = "fetch", ![j].target = getPlatformTarget]
            /\ netRequested' = TRUE
       ELSE /\ job' = Ended(j, FALSE, <<Msg("UnsupportedPlatform", Undefined, Undefined, "")>>)
            /\ UNCHANGED netRequested
    /\ UNCHANGED <<envVars, fs, sessVars, actVars, pendingUnlinks, hostVars, fnVars>>

JobFetchMkdirFirst(j) ==
    /\ job[j].pc = "fetch"
    /\ \E resp \in FetchResponses :
         LET target == Val(job[j].target)
             asset == FindAsset(resp.assets, resp.tag, target)
         IN CASE resp.kind \in {"rejected", "noAssets"} ->
                   /\ job' = Caught(j, resp.kind)
                   /\ UNCHANGED <<fs, netRequested>>
              [] resp.kind = "null" ->
                   /\ job' = Ended(j, FALSE, <<Msg("FetchFailed", Undefined, Undefined, "")>>)
                   /\ UNCHANGED <<fs, netRequested>>
              [] resp.kind = "release" /\ ~IsSome(asset) ->
                   /\ job' = Ended(j, FALSE,
                                   <<Msg("AssetNotFound", Some(resp.tag), job[j].target, "")>>)
                   /\ fs' = fs \cup {GlobalStorage, ServerDir}
                   /\ UNCHANGED netRequested
              [] resp.kind = "release" /\ IsSome(asset) ->
                   /\ job' = [job EXCEPT ![j].pc = "download", ![j].tag = Some(resp.tag),
                                         ![j].asset = asset]
                   /\ fs' = fs \cup {GlobalStorage, ServerDir, PathJoin(ServerDir, Val(asset))}
                   /\ netRequested' = TRUE
    /\ UNCHANGED <<envVars, sessVars, actVars, pendingUnlinks, hostVars, fnVars>>

\* lines 205-235: the release arrives; the asset is selected, the server
\* directory made, the write stream opened and the download requested
JobFetch(j) ==
    /\ job[j].pc = "fetch"
    /\ \E resp \in FetchResponses :
         LET target == Val(job[j].target)
             asset == FindAsset(resp.assets, resp.tag, target)
         IN CASE resp.kind \in {"rejected", "noAssets"} ->
                   /\ job' = Caught(j, resp.kind)
                   /\ UNCHANGED <<fs, netRequested>>
              [] resp.kind = "null" ->
                   /\ job' = Ended(j, FALSE, <<Msg("FetchFailed", Undefined, Undefined, "")>>)
                   /\ UNCHANGED <<fs, netRequested>>
              [] resp.kind = "release" /\ ~IsSome(asset) ->
                   /\ job' = Ended(j, FALSE,
                                   <<Msg("AssetNotFound", Some(resp.tag), job[j].target, "")>>)
                   /\ UNCHANGED <<fs, netRequested>>
              [] resp.kind = "release" /\ IsSome(asset) ->
                   /\ job' = [job EXCEPT ![j].pc = "download", ![j].tag = Some(resp.tag),
                                         ![j].asset = asset]
                   /\ fs' = fs \cup {GlobalStorage, ServerDir, PathJoin(ServerDir, Val(asset))}
                   /\ netRequested' = TRUE
    /\ UNCHANGED <<envVars, sessVars, actVars, pendingUnlinks, hostVars, fnVars>>

\* lines 293-296: a 301 or 302 response; the request is issued again
JobDlRedirect(j) ==
    /\ job[j].pc = "download"
    /\ job[j].redirects < MaxRedirects
    /\ job' = [job EXCEPT ![j].redirects = job[j].redirects + 1]
    /\ netRequested' = TRUE
    /\ UNCHANGED <<envVars, fs, sessVars, actVars, pendingUnlinks, hostVars, fnVars>>

\* lines 298-302: any other response; its body is piped and the stream finishes
JobDlFinish(j) ==
    /\ job[j].pc = "download"
    /\ job' = [job EXCEPT ![j].pc = "extract"]
    /\ UNCHANGED <<envVars, fs, sessVars, actVars, pendingUnlinks, netRequested, hostVars, fnVars>>

\* lines 304-307: the request fails; unlink is issued and the promise rejected
JobDlError(j) ==
    /\ job[j].pc = "download"
    /\ job' = Caught(j, "request")
    /\ pendingUnlinks' = pendingUnlinks \cup {ArchivePath(j)}
    /\ UNCHANGED <<envVars, fs, sessVars, actVars, netRequested, hostVars, fnVars>>

\* lines 298-302: the response breaks off; the stream never finishes and the
\* promise is never settled
JobDlStall(j) ==
    /\ job[j].pc = "download"
    /\ job' = [job EXCEPT ![j].pc = "hung"]
    /\ UNCHANGED <<envVars, fs, sessVars, actVars, pendingUnlinks, netRequested, hostVars, fnVars>>

\* the completion of an fs.unlink issued at line 305
UnlinkCompletes ==
    /\ \E p \in pendingUnlinks :
         /\ pendingUnlinks' = pendingUnlinks \ {p}
         /\ fs' = fs \ {p}
    /\ UNCHANGED <<envVars, sessVars, actVars, job, netRequested, hostVars, fnVars>>

\* the tool extractArchive runs for the archive, by its suffix and the platform
ExtractTool(name) ==
    IF EndsWith(name, ExtTarGz) THEN "tar"
    ELSE IF EndsWith(name, ExtZip)
         THEN IF platform = "win32" THEN "Expand-Archive" ELSE "unzip"
         ELSE "none"

\* lines 239, 314-330: the tool ends; it succeeds or fails (it fails without
\* the archive), and has or has not written the binary into the directory
JobExtract(j) ==
    /\ job[j].pc = "extract"
    /\ \E ok \in BOOLEAN, wroteBinary \in BOOLEAN :
         /\ ExtractTool(Val(job[j].asset)) = "none" => ok /\ ~wroteBinary
         /\ (ExtractTool(Val(job[j].asset)) # "none" /\ ArchivePath(j) \notin fs)
               => ~ok /\ ~wroteBinary
         /\ fs' = IF wroteBinary THEN fs \cup {ExtensionServerPath} ELSE fs
         /\ job' = IF ok THEN [job EXCEPT ![j].pc = "finish"] ELSE Caught(j, "extract")
    /\ UNCHANGED <<envVars, sessVars, actVars, pendingUnlinks, netRequested, hostVars, fnVars>>

\* lines 242-250: chmodSync unless on win32, unlinkSync, return true
JobFinish(j) ==
    /\ job[j].pc = "finish"
    /\ \E chmodOk \in BOOLEAN :
         IF platform # "win32" /\ (ExtensionServerPath \notin fs \/ ~chmodOk)
         THEN /\ job' = Caught(j, "chmod")
              /\ UNCHANGED fs
         ELSE IF ArchivePath(j) \in fs
              THEN /\ fs' = fs \ {ArchivePath(j)}
                   /\ job' = Ended(j, TRUE, <<>>)
              ELSE /\ job' = Caught(j, "unlink")
                   /\ UNCHANGED fs
    /\ UNCHANGED <<envVars, sessVars, actVars, pendingUnlinks, netRequested, hostVars, fnVars>>

----------------------------------------------------------------------------
(* activate *)

\* the host activates the extension: activate(context) is called
Activate ==
    /\ apc = "inactive"
    /\ apc' = "locate"
    /\ passes' = 1
    /\ UNCHANGED <<envVars, fs, sessVars, serverPath, choice, actMsgs, dlVars, hostVars, fnVars>>

\* line 29: serverPath = await getServerPath(context); line 31
ActLocate ==
    /\ apc = "locate"
    /\ serverPath' = getServerPath
    /\ apc' = IF IsSome(getServerPath) THEN "construct" ELSE "prompt"
    /\ UNCHANGED <<envVars, fs, sessVars, passes, choice, actMsgs, dlVars, hostVars, fnVars>>

\* the answers to showWarningMessage(..., "Download", "Cancel"): a button, or
\* undefined when the message is dismissed
PromptAnswers == {Some("Download"), Some("Cancel"), Undefined}

ShouldDownloadUnlessCancel(answer) == answer # Some("Cancel")

\* line 38: choice === "Download"
ShouldDownload(answer) == answer = Some("Download")

ActPromptNoAwait ==
    /\ apc = "prompt"
    /\ \E answer \in PromptAnswers :
         /\ choice' = answer
         /\ IF ShouldDownload(answer) /\ passes < MaxPasses
            THEN /\ apc' = "locate"
                 /\ passes' = passes + 1
                 /\ job' = [job EXCEPT !["act"] = [IdleJob EXCEPT !.pc = "resolve",
                                                                  !.prompted = TRUE]]
            ELSE /\ apc' = "done"
                 /\ UNCHANGED <<job, passes>>
    /\ UNCHANGED <<envVars, fs, sessVars, serverPath, actMsgs, pendingUnlinks,
                   netRequested, hostVars, fnVars>>

\* lines 32-39 and 49: the prompt is answered; downloadServer is called, or
\* activate returns
ActPrompt ==
    /\ apc = "prompt"
    /\ \E answer \in PromptAnswers :
         /\ choice' = answer
         /\ IF ShouldDownload(answer)
            THEN /\ apc' = "downloading"
                 /\ job' = [job EXCEPT !["act"] = [IdleJob EXCEPT !.pc = "resolve",
                                                                  !.prompted = TRUE]]
            ELSE /\ apc' = "done"
                 /\ UNCHANGED job
    /\ UNCHANGED <<envVars, fs, sessVars, passes, serverPath, actMsgs, pendingUnlinks,
                   netRequested, hostVars, fnVars>>

\* lines 40-45: downloadServer returned false
ActDownloadFailed ==
    /\ apc = "downloading"
    /\ job["act"].pc = "done"
    /\ ~job["act"].result
    /\ actMsgs' = Append(actMsgs, Msg("FailedToDownload", Undefined, Undefined, ""))
    /\ apc' = "done"
    /\ UNCHANGED <<envVars, fs, sessVars, passes, serverPath, choice, dlVars, hostVars, fnVars>>

ActReenterWired ==
    /\ apc = "downloading"
    /\ job["act"].pc = "done"
    /\ job["act"].result
    /\ passes < MaxPasses
    /\ passes' = passes + 1
    /\ apc' = "construct"
    /\ serverPath' = Some(ExtensionServerPath)
    /\ UNCHANGED <<envVars, fs, sessVars, choice, actMsgs, dlVars, hostVars, fnVars>>

\* line 47: downloadServer returned true; return activate(context)
ActReenter ==
    /\ apc = "downloading"
    /\ job["act"].pc = "done"
    /\ job["act"].result
    /\ passes < MaxPasses
    /\ passes' = passes + 1
    /\ apc' = "locate"
    /\ UNCHANGED <<envVars, fs, sessVars, serverPath, choice, actMsgs, dlVars, hostVars, fnVars>>

ActConstructRegisters ==
    /\ apc = "construct"
    /\ client' = Some([id |-> clientAssigns + 1, command |-> Val(serverPath)])
    /\ clientAssigns' = clientAssigns + 1
    /\ session' = StartSession("Uninitialized")
    /\ registered' = [c \in Commands |-> registered[c] + 1]
    /\ apc' = "starting"
    /\ UNCHANGED <<envVars, fs, rpc, passes, serverPath, choice, actMsgs,
                   dlVars, hostVars, fnVars>>

\* lines 77-85: client = new LanguageClient(...); client.start() is called
ActConstruct ==
    /\ apc = "construct"
    /\ client' = Some([id |-> clientAssigns + 1, command |-> Val(serverPath)])
    /\ clientAssigns' = clientAssigns + 1
    /\ session' = StartSession("Uninitialized")
    /\ apc' = "starting"
    /\ UNCHANGED <<envVars, fs, registered, rpc, passes, serverPath, choice, actMsgs,
                   dlVars, hostVars, fnVars>>

\* lines 85-117: client.start() resolves; the status bar item is made and the
\* two commands are registered
ActStarted ==
    /\ apc = "starting"
    /\ session' = HandshakeOk(session)
    /\ registered' = [c \in Commands |-> registered[c] + 1]
    /\ apc' = "active"
    /\ UNCHANGED <<envVars, fs, client, clientAssigns, rpc, passes, serverPath, choice,
                   actMsgs, dlVars, hostVars, fnVars>>

----------------------------------------------------------------------------
(* The commands *)

\* the host has a handler to run for the command
Available(c) == registered[c] > 0

\* activate() has returned; the host runs a command only then
ActivateReturned == apc \in {"done", "active"}

restartHandlerBeginStarts ==
    IF IsSome(client)
    THEN /\ session' = StartSession(session)
         /\ rpc' = "awaiting"
    ELSE UNCHANGED <<session, rpc>>

\* lines 99-101: the handler up to await client.restart()
restartHandlerBegin ==
    IF IsSome(client)
    THEN /\ session' = RestartSession(session)
         /\ rpc' = "awaiting"
    ELSE UNCHANGED <<session, rpc>>

\* the user invokes "luat.restartServer"
RestartCommand ==
    /\ ActivateReturned
    /\ rpc = "idle"
    /\ IF Available("luat.restartServer")
       THEN /\ restartHandlerBegin
            /\ UNCHANGED cmdNotFound
       ELSE /\ cmdNotFound' = cmdNotFound \cup {"luat.restartServer"}
            /\ UNCHANGED <<session, rpc>>
    /\ UNCHANGED <<envVars, fs, client, clientAssigns, registered, actVars, dlVars,
                   deactivateCalls, uncaught, fnVars>>

\* lines 101-102: client.restart() resolves; the information message is shown
RestartReturns ==
    /\ rpc = "awaiting"
    /\ session' = RestartDone(session)
    /\ rpc' = "idle"
    /\ UNCHANGED <<envVars, fs, client, clientAssigns, registered, actVars, dlVars,
                   cmdNotFound, deactivateCalls, uncaught, fnVars>>

\* line 110: the handler calls downloadServer(context)
downloadHandlerBegin(j) ==
    job' = [job EXCEPT ![j] = [IdleJob EXCEPT !.pc = "resolve"]]

\* the user invokes "luat.downloadServer"
DownloadCommand(j) ==
    /\ ActivateReturned
    /\ job[j].pc = "idle"
    /\ j = "cmd2" => job["cmd1"].pc # "idle"
    /\ IF Available("luat.downloadServer")
       THEN /\ downloadHandlerBegin(j)
            /\ UNCHANGED cmdNotFound
       ELSE /\ cmdNotFound' = cmdNotFound \cup {"luat.downloadServer"}
            /\ UNCHANGED job
    /\ UNCHANGED <<envVars, fs, sessVars, actVars, pendingUnlinks, netRequested,
                   deactivateCalls, uncaught, fnVars>>

downloadHandlerEndReenter(j) ==
    /\ job' = [job EXCEPT ![j].pc = "returned", ![j].info = job[j].result]
    /\ apc' = IF job[j].result THEN "locate" ELSE apc

\* lines 111-115: downloadServer returned; on true, the information message
downloadHandlerEnd(j) ==
    /\ job' = [job EXCEPT ![j].pc = "returned", ![j].info = job[j].result]
    /\ apc' = apc

DownloadReturns(j) ==
    /\ j \in CmdJobs
    /\ job[j].pc = "done"
    /\ downloadHandlerEnd(j)
    /\ UNCHANGED <<envVars, fs, sessVars, passes, serverPath, choice, actMsgs,
                   pendingUnlinks, netRequested, hostVars, fnVars>>

----------------------------------------------------------------------------
(* deactivate *)

deactivateUnguarded ==
    /\ session' = IF IsSome(client) THEN StopSession(session) ELSE session
    /\ uncaught' = IF IsSome(client) THEN uncaught ELSE uncaught \cup {"deactivate"}

\* lines 120-124: if (client) { await client.stop(); }
deactivate ==
    /\ session' = IF IsSome(client) THEN StopSession(session) ELSE session
    /\ uncaught' = uncaught

\* activate() is suspended at an await that a host event can be handled
\* during (the prompt, downloadServer, client.start()), or has returned; the
\* awaits of getServerPath and of the recursive call resume without one
HostEventPoint ==
    /\ apc \in {"prompt", "downloading", "starting", "done", "active"}
    /\ apc = "downloading" => job["act"].pc # "done"

\* the host calls deactivate(), on an extension it has activated
Deactivate ==
    /\ HostEventPoint
    /\ deactivateCalls < MaxDeactivate
    /\ deactivateCalls' = deactivateCalls + 1
    /\ deactivate
    /\ UNCHANGED <<envVars, fs, client, clientAssigns, registered, rpc, actVars, dlVars,
                   cmdNotFound, fnVars>>

----------------------------------------------------------------------------
(* The extension in its host *)

UsrBinBinary == PathJoin(UsrBin, BINARY_NAME)

\* the installations the extension is activated on, as the configured
\* server.path and the file system: nothing installed; a configured path
\* that does not exist; the binary on the PATH; the configured file and the
\* binary on the PATH; the binary of an earlier download
Installations ==
    { <<Undefined, {}>>,
      <<Some(ConfigFile), {}>>,
      <<Undefined, {UsrBinBinary}>>,
      <<Some(ConfigFile), {ConfigFile, UsrBinBinary}>>,
      <<Undefined, {GlobalStorage, ServerDir, ExtensionServerPath}>> }

InitProgram ==
    /\ client = Undefined
    /\ clientAssigns = 0
    /\ session = "Uninitialized"
    /\ registered = [c \in Commands |-> 0]
    /\ rpc = "idle"
    /\ passes = 0
    /\ serverPath = Undefined
    /\ choice = Undefined
    /\ actMsgs = <<>>
    /\ job = [j \in Jobs |-> IdleJob]
    /\ pendingUnlinks = {}
    /\ netRequested = FALSE
    /\ cmdNotFound = {}
    /\ deactivateCalls = 0
    /\ uncaught = {}

Init ==
    /\ platform \in {"linux", "win32", "freebsd"}
    /\ arch = "x64"
    /\ envPATH = Some(<<UsrBin>>)
    /\ envCARGO_HOME = Undefined
    /\ \E inst \in Installations : configPath = inst[1] /\ fs = inst[2]
    /\ InitProgram
    /\ apc = "inactive"
    /\ inp = Undefined
    /\ out = Undefined

Next ==
    \/ Activate
    \/ ActLocate
    \/ ActPrompt
    \/ ActDownloadFailed
    \/ ActReenter
    \/ ActConstruct
    \/ ActStarted
    \/ \E j \in Jobs : JobResolve(j)
    \/ \E j \in Jobs : JobFetch(j)
    \/ \E j \in Jobs : JobDlRedirect(j)
    \/ \E j \in Jobs : JobDlFinish(j)
    \/ \E j \in Jobs : JobDlError(j)
    \/ \E j \in Jobs : JobDlStall(j)
    \/ \E j \in Jobs : JobExtract(j)
    \/ \E j \in Jobs : JobFinish(j)
    \/ UnlinkCompletes
    \/ RestartCommand
    \/ RestartReturns
    \/ \E j \in CmdJobs : DownloadCommand(j)
    \/ \E j \in CmdJobs : DownloadReturns(j)
    \/ Deactivate

Spec == Init /\ [][Next]_vars

\* a step of run j of downloadServer
JobStep(j) ==
    \/ JobResolve(j)
    \/ JobFetch(j)
    \/ JobDlRedirect(j)
    \/ JobDlFinish(j)
    \/ JobDlError(j)
    \/ JobDlStall(j)
    \/ JobExtract(j)
    \/ JobFinish(j)

\* the event loop runs every continuation that is ready: a run of
\* downloadServer that can take a step does take one
FairSpec == Spec /\ \A j \in Jobs : WF_vars(JobStep(j))

----------------------------------------------------------------------------
(* The functions on their own: one call each, on every input within the bounds *)

\* the sequences over S of length at most n
SeqsUpTo(S, n) == UNION { [1..k -> S] : k \in 0..n }

FnVarsUnchanged ==
    UNCHANGED <<envVars, fs, sessVars, passes, serverPath, choice, actMsgs, dlVars,
                hostVars, inp>>

\* getPlatformTarget on every platform and architecture
InitTarget ==
    /\ platform \in Platforms
    /\ arch \in Archs
    /\ configPath = Undefined
    /\ envPATH = Undefined
    /\ envCARGO_HOME = Undefined
    /\ fs = {}
    /\ InitProgram
    /\ apc = "call"
    /\ inp = Undefined
    /\ out = Undefined

TargetCall ==
    /\ apc = "call"
    /\ out' = getPlatformTarget
    /\ apc' = "returned"
    /\ FnVarsUnchanged

SpecTarget == InitTarget /\ [][TargetCall]_vars

\* the files getServerPath may probe
CandidateFiles ==
    {ConfigFile, ExtensionServerPath}
    \cup { PathJoin(d, BINARY_NAME) : d \in PathEntryDirs }
    \cup { PathJoin(PathJoin(h, StrBin), BINARY_NAME) :
             h \in CargoHomeDirs \cup {PathJoin(HomeDir, StrDotCargo)} }

\* getServerPath on every combination of configuration, environment and
\* existing files
InitLocate ==
    /\ platform \in {"linux", "win32"}
    /\ arch = "x64"
    /\ configPath \in {Undefined, Some(<<>>), Some(ConfigFile)}
    /\ envPATH \in {Undefined}
                   \cup { Some(ds) : ds \in SeqsUpTo(PathEntryDirs, MaxPathDirs) \ {<<>>} }
    /\ envCARGO_HOME \in {Undefined} \cup { Some(h) : h \in CargoHomeDirs }
    /\ fs \in SUBSET CandidateFiles
    /\ InitProgram
    /\ apc = "call"
    /\ inp = Undefined
    /\ out = Undefined

LocateCall ==
    /\ apc = "call"
    /\ out' = getServerPath
    /\ apc' = "returned"
    /\ FnVarsUnchanged

SpecLocate == InitLocate /\ [][LocateCall]_vars

\* names a release may give its assets
AssetNames ==
    { AssetPrefix(t, tr) \o e :
        t \in {TagV1, TagV10}, tr \in {TripleLinuxX64, TripleWin32X64},
        e \in {ExtTarGz, ExtZip, ExtTarGz \o ExtSha, <<>>} }
    \cup {StrVsix}

\* the asset selection on every release within the bounds, for every target
InitAssets ==
    /\ platform = "linux"
    /\ arch = "x64"
    /\ configPath = Undefined
    /\ envPATH = Undefined
    /\ envCARGO_HOME = Undefined
    /\ fs = {}
    /\ InitProgram
    /\ apc = "call"
    /\ inp \in [tag : {TagV1, TagV10},
                target : { r.triple : r \in SupportedPlatforms },
                assets : SeqsUpTo(AssetNames, MaxAssets)]
    /\ out = Undefined

AssetsCall ==
    /\ apc = "call"
    /\ out' = FindAsset(inp.assets, inp.tag, inp.target)
    /\ apc' = "returned"
    /\ FnVarsUnchanged

SpecAssets == InitAssets /\ [][AssetsCall]_vars

----------------------------------------------------------------------------
(* Properties *)

\* the least element of a non-empty set of numbers
Least(S) == CHOOSE i \in S : \A k \in S : i <= k

\* the locator's candidates in their order of precedence: the configured
\* server.path if one is configured, the binary in the extension's server
\* directory, the binary in each PATH directory in PATH order, the binary in
\* the cargo bin directory
Candidates ==
    (IF Truthy(configPath) THEN <<Val(configPath)>> ELSE <<>>)
    \o <<ExtensionServerPath>>
    \o [i \in 1..Len(pathDirs) |-> PathJoin(pathDirs[i], BINARY_NAME)]
    \o <<cargoPath>>

\* C1: getServerPath returns the first candidate that exists, in the order
\* configured path, server directory, PATH directories in PATH order, cargo
\* bin directory, whichever later candidates exist too; it returns undefined
\* exactly when no candidate exists.
C1_LocateFirstExisting ==
    apc = "returned" =>
        LET existing == { i \in 1..Len(Candidates) : Candidates[i] \in fs }
        IN IF existing = {} THEN out = Undefined
           ELSE out = Some(Candidates[Least(existing)])

\* the server directory's binary and the cargo binary both exist, no
\* configured file does, and the server directory's binary is returned
C1_Witness ==
    /\ apc = "returned"
    /\ ConfigFile \notin fs
    /\ ExtensionServerPath \in fs
    /\ cargoPath \in fs
    /\ \E i \in 1..Len(pathDirs) : PathJoin(pathDirs[i], BINARY_NAME) \in fs
    /\ out = Some(ExtensionServerPath)

\* C2: getPlatformTarget returns the README's triple for each of the five
\* supported pairs of platform and architecture, and undefined for every
\* other pair.
C2_TargetTable ==
    apc = "returned" =>
        LET rows == { r \in SupportedPlatforms : r.platform = platform /\ r.arch = arch }
        IN /\ Cardinality(SupportedPlatforms) = 5
           /\ IF rows = {} THEN out = Undefined
              ELSE \A r \in rows : out = Some(r.triple)

\* a supported platform on an architecture that is not: no triple
C2_Witness ==
    /\ apc = "returned"
    /\ platform = "win32"
    /\ arch = "arm64"
    /\ out = Undefined

\* C3: the asset selected is the first in listing order whose name starts
\* with luat-lsp-<tag>-<triple> and ends with .tar.gz or .zip, neither
\* extension preferred; none is selected exactly when no name satisfies both.
C3_FirstMatchingAsset ==
    apc = "returned" =>
        LET prefix == StrBinaryStem \o <<"-">> \o inp.tag \o <<"-">> \o inp.target
            matching == { i \in 1..Len(inp.assets) :
                            /\ StartsWith(inp.assets[i], prefix)
                            /\ \/ EndsWith(inp.assets[i], ExtTarGz)
                               \/ EndsWith(inp.assets[i], ExtZip) }
        IN IF matching = {} THEN out = Undefined
           ELSE out = Some(inp.assets[Least(matching)])

\* a release listing the .zip before the .tar.gz of the target: the .zip
C3_Witness ==
    /\ apc = "returned"
    /\ inp.assets = <<AssetPrefix(inp.tag, inp.target) \o ExtZip,
                      AssetPrefix(inp.tag, inp.target) \o ExtTarGz>>
    /\ out = Some(inp.assets[1])

\* the invocation has ended
JobEnded(j) == job[j].pc \in {"done", "returned"}
\* the invocation is between its first and last step
JobInFlight(j) == job[j].pc \notin {"idle", "done", "returned"}

\* C4: once a downloadServer run has ended, successfully or not, the archive
\* <server directory>/<asset name> it downloaded to does not exist (an unlink
\* already issued is given the time to complete, and no other run is writing
\* the same file).
C4_ArchiveAbsentAfterInstall ==
    \A j \in Jobs :
        (/\ JobEnded(j)
         /\ IsSome(job[j].asset)
         /\ \A k \in Jobs \ {j} : ~JobInFlight(k))
        => \/ ArchivePath(j) \notin fs
           \/ ArchivePath(j) \in pendingUnlinks

\* C5: whenever downloadServer has returned true a server binary exists at
\* <globalStorage>/server/<binary>, and the locate of the re-entered activate,
\* with no server.path configured, returns that path.
C5_SuccessInstallsBinary ==
    /\ \A j \in Jobs : JobEnded(j) /\ job[j].result => ExtensionServerPath \in fs
    /\ (passes > 1 /\ apc # "locate" /\ ~Truthy(configPath))
           => serverPath = Some(ExtensionServerPath)

\* the user has invoked luat.restartServer in this step
RestartInvoked ==
    \/ "luat.restartServer" \in cmdNotFound' \ cmdNotFound
    \/ rpc = "idle" /\ rpc' = "awaiting"

\* C6: the restart command requests a restart of the current session if there
\* is one; if there is none it runs the sequence from locate.
C6_RestartFallsBackToLocate ==
    [][RestartInvoked =>
          IF IsSome(client)
          THEN rpc' = "awaiting" /\ session' = RestartSession(session)
          ELSE apc' = "locate"]_vars

\* C7, original: the download command surfaces the proceed/cancel choice
\* before it installs, and on success re-enters the sequence from locate.
C7_DownloadCommandPromptsAndReenters ==
    [][\A j \in CmdJobs :
          /\ (job[j].pc = "idle" /\ job'[j].pc # "idle") => job'[j].prompted
          /\ (job[j].pc = "done" /\ job[j].result /\ job'[j].pc = "returned")
                => apc' = "locate"]_vars

\* C7, amended: the download command, which is there to invoke only once a
\* server has been located and started, runs downloadServer without the
\* proceed/cancel choice; no step of it changes activate's position, the
\* located path, the client or its session; when downloadServer returns true
\* it shows the information message, and only then.
C7_DownloadCommandInstallsOnly ==
    /\ [][\A j \in CmdJobs :
             job'[j] # job[j] =>
                 /\ ~job'[j].prompted
                 /\ UNCHANGED <<apc, passes, serverPath, choice, client, clientAssigns,
                                session, registered>>]_vars
    /\ [](\A j \in CmdJobs :
             /\ job[j].pc # "idle" => IsSome(serverPath) /\ IsSome(client)
             /\ job[j].pc = "returned" => job[j].info = job[j].result)

\* a download command has installed the server and returned, and activate
\* has not been re-entered
C7_Witness ==
    \E j \in CmdJobs :
        /\ job[j].pc = "returned"
        /\ job[j].result
        /\ job[j].info
        /\ ExtensionServerPath \in fs
        /\ apc = "active"
        /\ passes = 1

\* C8: after a failed acquisition at startup the extension has no server and
\* the download command is available.
C8_RetryAvailableAfterFailure ==
    (apc = "done" /\ actMsgs # <<>>)
        => ~IsSome(client) /\ Available("luat.downloadServer")

\* C9: deactivate never raises an error, and called when no session was ever
\* started or when the session is already stopped it changes nothing.
C9_StopIdempotent ==
    /\ [][(deactivateCalls' # deactivateCalls /\ (~IsSome(client) \/ session = "Stopped"))
             => UNCHANGED <<envVars, fs, sessVars, actVars, dlVars, cmdNotFound,
                            uncaught, fnVars>>]_vars
    /\ []("deactivate" \notin uncaught)

\* deactivate has been called twice on a started session
C9_Witness ==
    /\ deactivateCalls = 2
    /\ IsSome(client)
    /\ session = "Stopped"

\* what a run of the flow could leave behind
SideEffects ==
    <<fs, netRequested, pendingUnlinks, job, client, clientAssigns, session,
      registered, actMsgs, uncaught>>

\* C10: when locate finds nothing and the prompt is answered with anything
\* but Download, activate returns and neither step has an effect: no request,
\* no file or directory, no session, no error message.
C10_DeclineHasNoEffects ==
    /\ [][/\ (apc = "locate" /\ apc' = "prompt") => UNCHANGED SideEffects
          /\ (apc = "prompt" /\ apc' # "prompt" /\ choice' # Some("Download"))
                => apc' = "done" /\ UNCHANGED SideEffects]_vars
    /\ []((apc = "done" /\ passes = 1 /\ choice # Some("Download"))
             => /\ ~netRequested
                /\ ~IsSome(client)
                /\ session = "Uninitialized"
                /\ actMsgs = <<>>
                /\ job["act"] = IdleJob
                /\ ServerDir \notin fs)

\* nothing was found, the user chose Cancel, and activate has returned
C10_Witness ==
    /\ apc = "done"
    /\ passes = 1
    /\ ~IsSome(serverPath)
    /\ choice = Some("Cancel")
    /\ ~netRequested
    /\ ~IsSome(client)

\* the releases of the host that list no asset for the target
NoMatchReleases(target) ==
    { r \in HostReleases : ~IsSome(FindAsset(r.assets, r.tag, target)) }

\* the message the invocation showed last
LastMsg(j) == job[j].msgs[Len(job[j].msgs)]

\* C11: when the download is accepted and the latest release lists no asset
\* for the platform's triple, downloadServer ends with the message
\* "No binary found for <triple> in release <tag>" naming that release's tag
\* and the resolved triple, and the step neither makes the server directory
\* nor writes any file; the directory and the archive appear only in a step
\* that selected an asset.
C11_NoAssetNoDirectory ==
    [][\A j \in Jobs :
          (job[j].pc = "fetch" /\ job'[j].pc # "fetch") =>
              /\ (job'[j].pc = "done" /\ job'[j].msgs[Len(job'[j].msgs)].kind = "AssetNotFound")
                    => /\ Len(job'[j].msgs) = Len(job[j].msgs) + 1
                       /\ job'[j].msgs[Len(job'[j].msgs)].target = getPlatformTarget
                       /\ \E r \in NoMatchReleases(Val(getPlatformTarget)) :
                              job'[j].msgs[Len(job'[j].msgs)].tag = Some(r.tag)
                       /\ ~job'[j].result
                       /\ fs' = fs
                       /\ pendingUnlinks' = pendingUnlinks
              /\ fs' # fs
                    => /\ job'[j].pc = "download"
                       /\ IsSome(job'[j].asset)
                       /\ AssetMatches(Val(job'[j].asset), Val(job'[j].tag),
                                       Val(job'[j].target))]_vars

\* the download was accepted at the prompt, the release listed no asset for
\* the target, and nothing was made on the file system
C11_Witness ==
    /\ job["act"].pc = "done"
    /\ job["act"].prompted
    /\ ~job["act"].result
    /\ LastMsg("act") = Msg("AssetNotFound", Some(TagV1), Some(TripleLinuxX64), "")
    /\ choice = Some("Download")
    /\ ServerDir \notin fs
    /\ fs = {}

\* the files in the server directory
ServerDirFiles ==
    { p \in fs : /\ Len(p) = Len(ServerDir) + 1
                 /\ SubSeq(p, 1, Len(ServerDir)) = ServerDir }

\* run j of downloadServer has returned true and is the second of two runs in
\* sequence that selected the same asset: activate's run of its second pass,
\* or the download command's first run after activate's run returned true
SecondRunEnded(j) ==
    /\ JobEnded(j)
    /\ job[j].result
    /\ \/ j = "act" /\ passes >= 2 /\ apc = "downloading"
       \/ /\ j = "cmd1"
          /\ job["act"].pc = "done" /\ job["act"].result
          /\ job["act"].asset = job[j].asset
          /\ job["cmd2"].pc = "idle"

\* C12: after downloadServer has run twice in sequence with the same asset
\* the server directory holds what it holds after one run: the server binary
\* at <globalStorage>/server/<binary> and nothing else, no archive and no
\* deletion still to come.
C12_TwiceSameAsOnce ==
    \A j \in Jobs :
        SecondRunEnded(j) =>
            /\ ServerDirFiles = {ExtensionServerPath}
            /\ pendingUnlinks = {}

\* the kinds of error message downloadServer shows
FailureKinds == {"UnsupportedPlatform", "FetchFailed", "AssetNotFound", "DownloadFailed"}

C14_StartFollowsLocate ==
    [][/\ (session # "Starting" /\ session' = "Starting")
             => /\ apc = "construct"
                /\ IsSome(serverPath)
                /\ serverPath = getServerPath
                /\ Val(client').command = Val(serverPath)
       /\ (apc # "construct" /\ apc' = "construct")
             => /\ apc = "locate"
                /\ IsSome(getServerPath)
                /\ serverPath' = getServerPath
       /\ (apc = "construct" /\ apc' # "starting") => UNCHANGED vars
       /\ (apc = "downloading" /\ apc' # "downloading")
             => /\ apc' = IF job["act"].result THEN "locate" ELSE "done"
                /\ UNCHANGED <<client, session, serverPath>>]_vars

\* after an install at startup the second pass has located the installed
\* binary and started it
C14_Witness ==
    /\ passes = 2
    /\ apc = "starting"
    /\ job["act"].pc = "done"
    /\ job["act"].result
    /\ session = "Starting"
    /\ serverPath = Some(ExtensionServerPath)
    /\ Val(client).command = ExtensionServerPath

\* the run is downloading, extracting or cleaning up in the server directory
Installing(j) == job[j].pc \in {"download", "extract", "finish"}

\* C15, original: at most one install is in flight at any time.
C15_AtMostOneInstall ==
    Cardinality({ j \in Jobs : Installing(j) }) <= 1

\* C15, amended: activate's run of downloadServer is never in flight together
\* with a run of the download command: a command's run begins only when
\* activate has started a session and returned, its own run long ended.
\* (Two runs of the download command can be in flight together.)
C15_StartupInstallIsAlone ==
    \A j \in CmdJobs :
        job[j].pc # "idle" =>
            /\ ~JobInFlight("act")
            /\ apc = "active"
            /\ Available("luat.downloadServer")

\* activate installed the server and started it; a download command is now
\* installing
C15_Witness ==
    /\ job["act"].pc = "done"
    /\ job["act"].result
    /\ apc = "active"
    /\ Installing("cmd1")

\* C16: a run of downloadServer that has started eventually ends, returning
\* true or false, whatever the release host answers.
C16_InstallEventuallyEnds ==
    \A j \in Jobs : JobInFlight(j) ~> JobEnded(j)

\* the transitions of the session's state machine
ListedTransitions ==
    { <<"Uninitialized", "Starting">>, <<"Starting", "Running">>,
      <<"Running", "Restarting">>, <<"Restarting", "Running">>,
      <<"Running", "Stopped">>, <<"Starting", "Stopped">> }

SessionLive == session \in {"Starting", "Running", "Restarting"}

\* C18: once deactivate has returned no session is live, and no step starts
\* one: an activate call that was suspended when deactivate was called (at
\* the prompt, or in its downloadServer) starts no session afterwards.
C18_NoSessionAfterDeactivate ==
    /\ [](deactivateCalls > 0 => ~SessionLive)
    /\ [][deactivateCalls > 0 => ~(session # "Starting" /\ session' = "Starting")]_vars

\* C19: `client` has been assigned at most once and each command registered
\* at most once, and only when client.start() had resolved; so a restart is
\* never requested on an Uninitialized or Starting session, and a client,
\* once assigned, is never replaced.
C19_SingleSession ==
    /\ [](/\ clientAssigns <= 1
          /\ (IsSome(client) <=> clientAssigns = 1)
          /\ \A c \in Commands :
                /\ registered[c] <= 1
                /\ registered[c] > 0
                      => /\ apc = "active"
                         /\ IsSome(client)
                         /\ session \notin {"Uninitialized", "Starting"})
    /\ [][/\ (rpc = "idle" /\ rpc' = "awaiting")
                => session \notin {"Uninitialized", "Starting"}
          /\ IsSome(client) => client' = client
          /\ registered' # registered => (apc = "starting" /\ apc' = "active")]_vars

\* activate ran twice, by its recursion after the install, and a restart of
\* the one session it started is in flight
C19_Witness ==
    /\ passes = 2
    /\ apc = "active"
    /\ clientAssigns = 1
    /\ \A c \in Commands : registered[c] = 1
    /\ rpc = "awaiting"
    /\ session = "Restarting"

====
